---------------------------- MODULE Spec2Model ----------------------------
(***************************************************************************)
(* A model of the HYSTERESIS tape-emulation plugin (src/src/lib.rs and     *)
(* src/src/compute.rs).                                                    *)
(*                                                                         *)
(* Numbers.  Every f32 of the program is an integer here: the magnitude of *)
(* the integer is the IEEE-754 binary32 bit pattern of the magnitude of    *)
(* the float (8 exponent bits, 23 fraction bits) and the sign of the       *)
(* integer is the sign of the float.  The order of the integers is the     *)
(* order of the floats.  +, -, *, / and sqrt round to nearest, ties to     *)
(* even, as the hardware does; overflow gives FInf and invalid operations  *)
(* give FNaN.  Negative zero is not represented (it reads as +0.0).  The   *)
(* library functions (exp, ln, sin, tan, tanh, powf) are computed from     *)
(* these operations and agree with the platform's to a few units in the    *)
(* last place.                                                             *)
(***************************************************************************)
EXTENDS Integers, Sequences, FiniteSets, TLC

\* ------------------------------------------------------------------------
\* binary32 arithmetic
\* ------------------------------------------------------------------------

P23 == 2^23
P24 == 2^24
P26 == 2^26
P27 == 2^27

FInf == 255 * P23
FNaN == 255 * P23 + 2^22

Abs(x) == IF x < 0 THEN -x ELSE x
Min(a, b) == IF a < b THEN a ELSE b
Max(a, b) == IF a < b THEN b ELSE a

IsNaN(v) == v > FInf \/ v < -FInf
IsInf(v) == Abs(v) = FInf
IsFinite(v) == Abs(v) < FInf
Sign(v) == IF v < 0 THEN -1 ELSE 1

\* the biased exponent (a subnormal counts as exponent 1) and the 24-bit
\* significand: |v| = Sig(v) * 2^(Exp(v) - 150)
Exp(v) == Max(Abs(v) \div P23, 1)
Sig(v) == IF Abs(v) < P23 THEN Abs(v) ELSE (Abs(v) % P23) + P23

\* q with a sticky bit: its last bit set when the remainder r is not zero
Sticky(q, r) == IF r # 0 /\ q % 2 = 0 THEN q + 1 ELSE q

\* m shifted right by s bits, the bits shifted out or-ed into the last bit
ShiftRightSticky(m, s) ==
  IF s <= 0 THEN m
  ELSE IF s >= 30 THEN (IF m = 0 THEN 0 ELSE 1)
  ELSE Sticky(m \div (2^s), m % (2^s))

\* the number of left shifts that bring 0 < m < 2^27 into [2^26, 2^27):
\* the largest s with m * 2^s < 2^27, found a binary digit of s at a time
LeadShift1(m, s) == IF m < P26 THEN s + 1 ELSE s
LeadShift2(m, s) == IF m < 2^25 THEN LeadShift1(m * 4, s + 2) ELSE LeadShift1(m, s)
LeadShift4(m, s) == IF m < P23 THEN LeadShift2(m * 16, s + 4) ELSE LeadShift2(m, s)
LeadShift8(m, s) == IF m < 2^19 THEN LeadShift4(m * 256, s + 8) ELSE LeadShift4(m, s)
LeadShift(m) == IF m < 2^11 THEN LeadShift8(m * 65536, 16) ELSE LeadShift8(m, 0)

RoundUp(sig, low) == IF low > 4 \/ (low = 4 /\ sig % 2 = 1) THEN sig + 1 ELSE sig

\* round to nearest even and encode: the value is sgn * (m3 / 8) * 2^(e3 - 149)
\* with m3 < 2^27, the last three bits of m3 being guard, round and sticky, and
\* e3 the exponent field (0 for a subnormal); a carry out of the significand
\* moves into the exponent field, up to that of the infinity
RoundEncode(sgn, m3, e3) ==
  IF e3 >= 254 THEN sgn * FInf ELSE sgn * (e3 * P23 + RoundUp(m3 \div 8, m3 % 8))

\* m2 in [2^26, 2^27), or below 2^26 with e2 <= 1: below the normal range the
\* result is a subnormal with exponent field 0
RoundFit(sgn, m2, e2) ==
  IF e2 < 1 THEN RoundEncode(sgn, ShiftRightSticky(m2, 1 - e2), 0)
  ELSE IF m2 < P26 THEN RoundEncode(sgn, m2, 0)
  ELSE RoundEncode(sgn, m2, e2 - 1)

RoundLeft(sgn, m1, e1, ls) == RoundFit(sgn, m1 * (2^ls), e1 - ls)

\* the float nearest to sgn * (m0 / 8) * 2^(e0 - 150), 0 < m0 < 2^28
RoundPack(sgn, m0, e0) ==
  IF m0 >= P27 THEN RoundFit(sgn, ShiftRightSticky(m0, 1), e0 + 1)
  ELSE IF m0 >= P26 THEN RoundFit(sgn, m0, e0)
  ELSE RoundLeft(sgn, m0, e0, Min(LeadShift(m0), Max(e0 - 1, 0)))

FNeg(a) == IF IsNaN(a) THEN FNaN ELSE -a
FAbs(a) == IF IsNaN(a) THEN FNaN ELSE Abs(a)

FAddSum(big, s) == IF s = 0 THEN 0 ELSE RoundPack(Sign(big), s, Exp(big))

\* |big| >= |small|, both finite and not zero
FAddMag(big, small) ==
  FAddSum(big, IF Sign(big) = Sign(small)
               THEN Sig(big) * 8 + ShiftRightSticky(Sig(small) * 8, Exp(big) - Exp(small))
               ELSE Sig(big) * 8 - ShiftRightSticky(Sig(small) * 8, Exp(big) - Exp(small)))

FAddSpecial(a, b) ==
  IF IsNaN(a) \/ IsNaN(b) THEN FNaN
  ELSE IF IsInf(a) THEN (IF IsInf(b) /\ a # b THEN FNaN ELSE a)
  ELSE IF IsInf(b) THEN b
  ELSE IF a = 0 THEN b
  ELSE a

FAdd(a, b) ==
  IF \/ a = 0
     \/ b = 0
     \/ ~IsFinite(a)
     \/ ~IsFinite(b)
  THEN FAddSpecial(a, b)
  ELSE IF Abs(a) >= Abs(b) THEN FAddMag(a, b)
  ELSE FAddMag(b, a)

\* a NaN of either sign is a NaN to FAdd
FSub(a, b) == FAdd(a, -b)

\* a significand below 2^23 (a subnormal) brought up to 24 bits
NormShift(sig) == IF sig >= P23 THEN 0 ELSE LeadShift(sig * 8)
NormSig(v) == Sig(v) * (2^NormShift(Sig(v)))
NormExp(v) == Exp(v) - NormShift(Sig(v))

\* the 48-bit product hi * 2^24 + lo of two significands, in [2^46, 2^48)
FMulRound(sgn, e, hi, lo) ==
  IF hi >= P23
  THEN RoundPack(sgn, hi * 8 + Sticky(lo \div (2^21), lo % (2^21)), e + 1)
  ELSE RoundPack(sgn, hi * 16 + Sticky(lo \div (2^20), lo % (2^20)), e)

\* the product from its limbs: hh * 2^24 + cross * 2^12 + ll
FMulSum(sgn, e, hh, cross, ll) ==
  FMulRound(sgn, e, hh + cross \div 4096 + ((cross % 4096) * 4096 + ll) \div P24,
            ((cross % 4096) * 4096 + ll) % P24)

FMulSig(sgn, e, ma, mb) ==
  FMulSum(sgn, e, (ma \div 4096) * (mb \div 4096),
          (ma \div 4096) * (mb % 4096) + (ma % 4096) * (mb \div 4096),
          (ma % 4096) * (mb % 4096))

FMulSpecial(a, b) ==
  IF IsNaN(a) \/ IsNaN(b) THEN FNaN
  ELSE IF IsInf(a) \/ IsInf(b)
       THEN (IF a = 0 \/ b = 0 THEN FNaN ELSE Sign(a) * Sign(b) * FInf)
  ELSE 0

FMul(a, b) ==
  IF \/ a = 0
     \/ b = 0
     \/ ~IsFinite(a)
     \/ ~IsFinite(b)
  THEN FMulSpecial(a, b)
  ELSE FMulSig(Sign(a) * Sign(b), NormExp(a) + NormExp(b) - 127,
               NormSig(a), NormSig(b))

\* the quotient's digits, ks bits at a time: <<quotient, remainder>>
RECURSIVE DivDigits(_, _, _, _)
DivDigits(q, r, mb, ks) ==
  IF ks = <<>> THEN <<q, r>>
  ELSE DivDigits(q * (2^Head(ks)) + (r * (2^Head(ks))) \div mb,
                 (r * (2^Head(ks))) % mb, mb, Tail(ks))

\* qr[1] = floor(ma * 2^26 / mb), in (2^25, 2^27)
FDivRound(sgn, e, qr) == RoundPack(sgn, Sticky(qr[1], qr[2]), e)

FDivSig(sgn, e, ma, mb) ==
  FDivRound(sgn, e, DivDigits(ma \div mb, ma % mb, mb, <<7, 7, 7, 5>>))

FDivSpecial(a, b) ==
  IF IsNaN(a) \/ IsNaN(b) THEN FNaN
  ELSE IF IsInf(a) THEN (IF IsInf(b) THEN FNaN ELSE Sign(a) * Sign(b) * FInf)
  ELSE IF IsInf(b) THEN 0
  ELSE IF b = 0 THEN (IF a = 0 THEN FNaN ELSE Sign(a) * FInf)
  ELSE 0

FDiv(a, b) ==
  IF \/ a = 0
     \/ b = 0
     \/ ~IsFinite(a)
     \/ ~IsFinite(b)
  THEN FDivSpecial(a, b)
  ELSE FDivSig(Sign(a) * Sign(b), NormExp(a) - NormExp(b) + 127,
               NormSig(a), NormSig(b))

FLt(a, b) == ~IsNaN(a) /\ ~IsNaN(b) /\ a < b
FGt(a, b) == FLt(b, a)
FLe(a, b) == ~IsNaN(a) /\ ~IsNaN(b) /\ a <= b


\* ------------------------------------------------------------------------
\* conversions
\* ------------------------------------------------------------------------

IntMax == (2^30 - 1) * 2 + 1

\* the bits to drop from an integer a < 2^31 to leave 27
IntShift(a) ==
  IF a < P27 THEN 0 ELSE IF a < 2^28 THEN 1 ELSE IF a < 2^29 THEN 2
  ELSE IF a < 2^30 THEN 3 ELSE 4

\* i as f32, for an integer i
IntToF(i) ==
  IF i = 0 THEN 0
  ELSE RoundPack(Sign(i), ShiftRightSticky(Abs(i), IntShift(Abs(i))),
                 153 + IntShift(Abs(i)))

FloorMag(sig, sh) ==
  IF sh >= 8 THEN IntMax
  ELSE IF sh >= 0 THEN sig * (2^sh)
  ELSE IF sh < -24 THEN 0
  ELSE sig \div (2^(-sh))

FloorExact(sig, sh) == sh >= 0 \/ (sh >= -24 /\ sig % (2^(-sh)) = 0)

FloorSigned(v, mag, exact) ==
  IF v >= 0 THEN mag ELSE IF exact THEN -mag ELSE -mag - 1

\* the largest integer not above v (saturating at the integer range)
FloorInt(v) ==
  IF IsNaN(v) THEN 0
  ELSE FloorSigned(v, FloorMag(Sig(v), Exp(v) - 150), FloorExact(Sig(v), Exp(v) - 150))

\* f32::floor
FFloor(v) == IF ~IsFinite(v) \/ Exp(v) >= 150 THEN v ELSE IntToF(FloorInt(v))

\* `x as usize`, `x as u8`: toward zero, saturating, NaN to 0
AsUsize(v) == IF IsNaN(v) \/ v <= 0 THEN 0 ELSE FloorInt(v)
AsU8(v) == Min(AsUsize(v), 255)

\* the power of two 2^k as a float, -126 <= k <= 127
Pow2(k) == (k + 127) * P23

\* v * 2^k
ScalbTwice(v, k, k1) == FMul(FMul(v, Pow2(k1)), Pow2(Max(Min(k - k1, 127), -126)))
Scalb(v, k) == ScalbTwice(v, k, Max(Min(k, 127), -126))

\* ------------------------------------------------------------------------
\* library functions
\* ------------------------------------------------------------------------

\* f32::sqrt, correctly rounded. With hi the significand, or twice it when
\* the exponent is odd (2^23 <= hi < 2^25), the root is that of hi * 2^28:
\* sqrt(hi) to the integer below, then the 14 bits after it.

\* the integer square root of hi: of hi / 4096 first, which leaves 64 candidates
ISqrtTop(hi) == CHOOSE t \in 45..90 : t * t <= hi \div 4096 /\ hi \div 4096 < (t + 1) * (t + 1)
ISqrtIn(hi, t) ==
  CHOOSE r \in (64 * t)..(64 * t + 63) : r * r <= hi /\ hi < (r + 1) * (r + 1)
ISqrt(hi) == ISqrtIn(hi, ISqrtTop(hi))

\* (2 r0 2^14 + dg) dg <= rem0 2^28, and whether they are equal: both sides
\* in units of 2^14
SqrtFits(r0, rem0, dg) ==
  \/ 2 * r0 * dg + (dg * dg) \div 16384 < rem0 * 16384
  \/ 2 * r0 * dg + (dg * dg) \div 16384 = rem0 * 16384 /\ (dg * dg) % 16384 = 0
SqrtExact(r0, rem0, dg) ==
  2 * r0 * dg + (dg * dg) \div 16384 = rem0 * 16384 /\ (dg * dg) % 16384 = 0

\* the largest dg that fits: the quotient est of rem0 2^28 by 2 r0 2^14, or
\* one of the three below it
SqrtDigit(r0, rem0, est) ==
  CHOOSE dg \in Max(est - 3, 0)..est :
    SqrtFits(r0, rem0, dg) /\ (dg = est \/ ~SqrtFits(r0, rem0, dg + 1))

FSqrtRound(r0, rem0, dg, e2) ==
  RoundPack(1, Sticky(r0 * 16384 + dg, IF SqrtExact(r0, rem0, dg) THEN 0 ELSE 1),
            e2 + 150 + 3 - 14)

FSqrtRem(r0, rem0, e2) ==
  FSqrtRound(r0, rem0, SqrtDigit(r0, rem0, Min(16383, (rem0 * 8192) \div r0)), e2)

FSqrtRoot(hi, r0, e2) == FSqrtRem(r0, hi - r0 * r0, e2)

FSqrtSig(sig, e) ==
  IF e % 2 # 0 THEN FSqrtRoot(sig * 2, ISqrt(sig * 2), (e - 1) \div 2)
  ELSE FSqrtRoot(sig, ISqrt(sig), e \div 2)

FSqrt(v) ==
  IF IsNaN(v) \/ v < 0 THEN FNaN
  ELSE IF v = 0 \/ IsInf(v) THEN v
  ELSE FSqrtSig(NormSig(v), NormExp(v) - 150)

\* the polynomial (..(acc r + cs[1]) r + cs[2]).. ) r + cs[last]
RECURSIVE Horner(_, _, _)
Horner(r, acc, cs) ==
  IF cs = <<>> \/ IsNaN(acc) THEN acc
  ELSE Horner(r, FAdd(FMul(r, acc), Head(cs)), Tail(cs))

\* f32::exp: e^r 2^k, r = v - k ln 2 with ln 2 in two parts, e^r by its
\* series to r^7 / 5040
FExpPoly(k, p) == IF IsNaN(p) THEN FNaN ELSE Scalb(p, k)

FExpScale(k, r) ==
  IF r = 0 THEN Scalb(1065353216, k)
  ELSE FExpPoly(k, Horner(r, 961547521, <<985008993, 1007192201, 1026206379,
                                          1042983595, 1056964608, 1065353216,
                                          1065353216>>))

FExpReduce(v, k, kf) ==
  IF kf = 0 THEN FExpScale(k, v)
  ELSE FExpScale(k, FSub(FSub(v, FMul(kf, 1060204544)), FMul(kf, 939916788)))

FExpSplit(v, k) == FExpReduce(v, k, IntToF(k))

FExp(v) ==
  IF IsNaN(v) THEN FNaN
  ELSE IF v > 1118925336 THEN FInf                \* above 88.72284
  ELSE IF v < -1120925123 THEN 0                  \* below -103.98
  ELSE FExpSplit(v, FloorInt(FAdd(FMul(v, 1069066811), 1056964608)))   \* v / ln 2

\* f32::ln: k ln 2 + ln m, m in [sqrt 1/2, sqrt 2], ln m = 2 atanh s with
\* s = (m - 1) / (m + 1), by its series to s^11 / 11
FLnSum(k, s, z, q2) ==
  FAdd(FMul(k, 1060204544),
       FAdd(FMul(1073741824, FAdd(s, FMul(FMul(s, z), q2))), FMul(k, 939916788)))

FLnSeries(k, s, z) ==
  FLnSum(k, s, z, Horner(z, 1035611788, <<1038323257, 1041385765, 1045220557,
                                          1051372203>>))

FLnRatio(k, s) == FLnSeries(k, s, FMul(s, s))

FLnMant(k, m) == FLnRatio(k, FDiv(FSub(m, 1065353216), FAdd(m, 1065353216)))

FLnSplit(e0, m0) ==
  FLnMant(IntToF(IF m0 > 1068827891 THEN e0 + 1 ELSE e0),
          IF m0 > 1068827891 THEN m0 - P23 ELSE m0)

FLn(v) ==
  IF IsNaN(v) \/ v < 0 THEN FNaN
  ELSE IF v = 0 THEN -FInf
  ELSE IF IsInf(v) THEN FInf
  ELSE FLnSplit(NormExp(v) - 127, P23 * 127 + (NormSig(v) - P23))

\* v - k pi/2, with pi/2 in three parts
ReduceParts(v, kf) ==
  FSub(FSub(FSub(v, FMul(kf, 1070137344)), FMul(kf, 972922880)), FMul(kf, 866263401))

ReducePio2(v, k) == ReduceParts(v, IntToF(k))

\* sin and cos on [-pi/4, pi/4], by their series to r^9 and r^10
SinSeries(r, z) ==
  FAdd(r, FMul(FMul(r, z),
               Horner(z, 909700893, <<-961547521, 1007192201, -1042983595>>)))

SinKernel(r) == SinSeries(r, FMul(r, r))

CosSeries(z) ==
  FAdd(1065353216,
       FMul(z, Horner(z, -882111102, <<936381697, -985008993, 1026206379,
                                       -1056964608>>)))

CosKernel(r) == CosSeries(FMul(r, r))

Quadrant(v) == FloorInt(FAdd(FMul(v, 1059256707), 1056964608))   \* v * 2/pi

QuadSign(q, v) == IF q >= 2 THEN FNeg(v) ELSE v

\* f32::sin, f32::cos, f32::tan (arguments of a few turns at most)
SinQuadrant(q, r) == QuadSign(q, IF q % 2 = 0 THEN SinKernel(r) ELSE CosKernel(r))

FSinReduce(v, k) == SinQuadrant(k % 4, ReducePio2(v, k))

FSin(v) == IF ~IsFinite(v) THEN FNaN ELSE FSinReduce(v, Quadrant(v))

CosQuadrant(q, r) ==
  IF q % 2 = 0 THEN QuadSign(q, CosKernel(r)) ELSE QuadSign(4 - q, SinKernel(r))

FCosReduce(v, k) == CosQuadrant(k % 4, ReducePio2(v, k))

FCos(v) == IF ~IsFinite(v) THEN FNaN ELSE FCosReduce(v, Quadrant(v))

FTan(v) == FDiv(FSin(v), FCos(v))

\* f32::tanh: its series to v^13 below 0.25, 1 - 2 / (e^2|v| + 1) above
TanhSeries(v, z) ==
  FAdd(v, FMul(FMul(v, z),
               Horner(z, 996895208, <<-1007761179, 1018374052, -1029508561,
                                      1040746633, -1051372203>>)))

TanhExp(v, e) ==
  IF IsInf(e) THEN Sign(v) * 1065353216
  ELSE Sign(v) * FSub(1065353216, FDiv(1073741824, FAdd(e, 1065353216)))

FTanh(v) ==
  IF IsNaN(v) THEN FNaN
  ELSE IF Abs(v) > 1091567616 THEN Sign(v) * 1065353216      \* beyond 9: 1
  ELSE IF Abs(v) < 1048576000 THEN TanhSeries(v, FMul(v, v))
  ELSE TanhExp(v, FExp(FMul(1073741824, Abs(v))))

\* x^n for an integer n >= 0, by squaring
RECURSIVE PowInt(_, _)
PowSquare(v, n, h) == IF n % 2 = 0 THEN FMul(h, h) ELSE FMul(FMul(h, h), v)

PowInt(v, n) ==
  IF n = 0 THEN 1065353216
  ELSE IF n = 1 THEN v
  ELSE PowSquare(v, n, PowInt(v, n \div 2))

\* whether y is an integer of magnitude 64 at most
IsSmallInt(y) == IsFinite(y) /\ Abs(y) <= 1115684864 /\ IntToF(FloorInt(y)) = y

\* f32::powf
FPowf(v, y) ==
  IF y = 0 \/ v = 1065353216 THEN 1065353216
  ELSE IF IsNaN(v) \/ IsNaN(y) THEN FNaN
  ELSE IF IsSmallInt(y)
  THEN (IF y > 0 THEN PowInt(v, FloorInt(y))
        ELSE FDiv(1065353216, PowInt(v, -FloorInt(y))))
  ELSE IF v < 0 THEN FNaN
  ELSE IF v = 0 THEN (IF y > 0 THEN 0 ELSE FInf)
  ELSE FExp(FMul(y, FLn(v)))

\* ------------------------------------------------------------------------
\* the program's f32 literals (bit patterns)
\* ------------------------------------------------------------------------

F_0 == 0
F_1 == 1065353216
F_2 == 1073741824
F_3 == 1077936128
F_4 == 1082130432
F_5 == 1084227584
F_7 == 1088421888
F_8 == 1090519040
F_10 == 1092616192
F_13 == 1095761920
F_16 == 1098907648
F_18 == 1099956224
F_0_5 == 1056964608
F_0_25 == 1048576000
F_0_2 == 1045220557
F_0_1 == 1036831949
F_0_9 == 1063675494
F_0_35 == 1051931443
F_0_8 == 1061997773
F_0_01 == 1008981770
F_0_03 == 1022739087
F_0_33 == 1051260355
F_0_999 == 1065336439
F_0_99975 == 1065349022
F_2_82842712 == 1077216499
F_1_4 == 1068708659
F_0_169967143 == 1043205086
F_0_98544972998 == 1065109103
F_1_4549654 == 1069169742
F_1_28741055 == 1067764190
F_0_70710678 == 1060439283
F_20 == 1101004800
\* ln 10, the divisor of log10
F_LN_10 == 1075010958
F_2205 == 1158270976
F_44100 == 1194083328
TAU == 1086918619
MOD_RATE == 1047233823
LP_1_CUT == 1097859072
HP_1_CUT == 1075838976
HP_2_CUT == 1140457472
\* u64::MAX as f32, which is 2^64
U64_MAX == 1602224128

\* ------------------------------------------------------------------------
\* compute.rs
\* ------------------------------------------------------------------------

\* f32::signum (there is no negative zero here)
signum(v) == IF IsNaN(v) THEN FNaN ELSE IF v < 0 THEN -F_1 ELSE F_1

\* the uniform variate of a draw u = rng.next_u64() as f32
unit(u) == FDiv(u, U64_MAX)

diff(x, x_p, T) == FDiv(FSub(x, x_p), T)

\* the closure trans of analog_xover, soft being 1 - amt
analog_xover_trans(x, soft, w) ==
  FDiv(FSub(FAdd(FMul(F_2, w), soft),
            FMul(F_2_82842712, FSqrt(FMul(soft, FSub(w, x))))), F_2)

\* the if of analog_xover, t0 being trans(0.0)
analog_xover_if(x, x_abs, soft, w, t0) ==
  IF FLt(x_abs, FSub(w, FDiv(soft, F_2)))
  THEN FMul(FSub(analog_xover_trans(x_abs, soft, w), t0), signum(x))
  ELSE FMul(FSub(x_abs, t0), signum(x))

analog_xover_soft(x, soft, w) ==
  analog_xover_if(x, FAbs(x), soft, w, analog_xover_trans(F_0, soft, w))

analog_xover(x, amt, w) == analog_xover_soft(x, FSub(F_1, amt), w)

\* the local sat_1 of tape_sat_1
tape_sat_1_sat(x) ==
  IF FLt(x, -F_1_4)
  THEN FSub(FMul(F_0_169967143, FAdd(x, F_1_4)), F_0_98544972998)
  ELSE IF FGt(x, F_1_4)
  THEN FAdd(FMul(F_0_169967143, FSub(x, F_1_4)), F_0_98544972998)
  ELSE FSin(x)

tape_sat_1(x) == FTanh(FMul(tape_sat_1_sat(x), F_0_8))

\* the continued fraction of tape_sat_2, x_2 being x*x
tape_sat_2_frac(x, x_2) ==
  FDiv(x, FAdd(F_1, FDiv(x_2, FAdd(F_3, FDiv(x_2, FAdd(F_5,
       FDiv(x_2, FAdd(F_7, FDiv(x_2, F_13)))))))))

tape_sat_2(x) == tape_sat_2_frac(x, FMul(x, x))

soft_clip(x) ==
  FSub(FMul(F_0_2, FLn(FDiv(FAdd(F_1, FExp(FAdd(FMul(F_10, x), F_5))),
                            FAdd(F_1, FExp(FSub(FMul(F_10, x), F_5)))))), F_1)

\* the locals tg, sat and fade of tupe_sat, and its result
tupe_sat_tg(x) == FDiv(FTan(FMul(F_1_4549654, x)), F_4)
tupe_sat_sat(x) == FTanh(FMul(F_1_4549654, x))
tupe_sat_fade(x) ==
  IF FGt(FAbs(x), F_1_28741055) THEN F_1
  ELSE FMul(FDiv(F_1, F_1_28741055), FAbs(x))
tupe_sat_mix(tg, sat, fade) == FAdd(FMul(tg, FSub(fade, F_1)), FMul(sat, fade))

tupe_sat(x) == tupe_sat_mix(tupe_sat_tg(x), tupe_sat_sat(x), tupe_sat_fade(x))

\* x_quant(x, x_p, T, q, rng), u being the draw it takes from rng
x_quant(x, x_p, T, q, u) ==
  IF FLt(unit(u), FMul(FAbs(diff(x, x_p, T)),
                       FPowf(FSub(F_1, q), FMul(FMul(T, F_44100), F_8))))
  THEN x ELSE x_p

\* ------------------------------------------------------------------------
\* lib.rs: EffectParameters
\* ------------------------------------------------------------------------

\* impl Default for EffectParameters
DefaultParameters ==
  [pre_gain |-> F_0_5, bias |-> F_0_5, hysteresis |-> F_0, mode |-> F_0,
   drive |-> F_0, quantum |-> F_0, wow |-> F_0, flutter |-> F_0,
   erase |-> F_0, hiss |-> F_0, dry_wet |-> F_1, post_gain |-> F_0_70710678]

get_parameter(p, index) ==
  CASE index = 0 -> p.pre_gain
    [] index = 1 -> p.bias
    [] index = 2 -> p.hysteresis
    [] index = 3 -> p.mode
    [] index = 4 -> p.drive
    [] index = 5 -> p.quantum
    [] index = 6 -> p.wow
    [] index = 7 -> p.flutter
    [] index = 8 -> p.erase
    [] index = 9 -> p.hiss
    [] index = 10 -> p.dry_wet
    [] index = 11 -> p.post_gain
    [] OTHER -> F_0

\* set_parameter as it would be with mode and drive on one control
set_parameter_ganged(p, index, val) ==
  CASE index = 0 -> [p EXCEPT !.pre_gain = val]
    [] index = 1 -> [p EXCEPT !.bias = val]
    [] index = 2 -> [p EXCEPT !.hysteresis = val]
    [] index = 3 -> [p EXCEPT !.mode = val, !.drive = val]
    [] index = 4 -> [p EXCEPT !.drive = val]
    [] index = 5 -> [p EXCEPT !.quantum = val]
    [] index = 6 -> [p EXCEPT !.wow = val]
    [] index = 7 -> [p EXCEPT !.flutter = val]
    [] index = 8 -> [p EXCEPT !.erase = val]
    [] index = 9 -> [p EXCEPT !.hiss = val]
    [] index = 10 -> [p EXCEPT !.dry_wet = val]
    [] index = 11 -> [p EXCEPT !.post_gain = val]
    [] OTHER -> p

set_parameter(p, index, val) ==
  CASE index = 0 -> [p EXCEPT !.pre_gain = val]
    [] index = 1 -> [p EXCEPT !.bias = val]
    [] index = 2 -> [p EXCEPT !.hysteresis = val]
    [] index = 3 -> [p EXCEPT !.mode = val]
    [] index = 4 -> [p EXCEPT !.drive = val]
    [] index = 5 -> [p EXCEPT !.quantum = val]
    [] index = 6 -> [p EXCEPT !.wow = val]
    [] index = 7 -> [p EXCEPT !.flutter = val]
    [] index = 8 -> [p EXCEPT !.erase = val]
    [] index = 9 -> [p EXCEPT !.hiss = val]
    [] index = 10 -> [p EXCEPT !.dry_wet = val]
    [] index = 11 -> [p EXCEPT !.post_gain = val]
    [] OTHER -> p

get_parameter_name(index) ==
  CASE index = 0 -> "pre-gain"
    [] index = 1 -> "bias"
    [] index = 2 -> "hysteresis"
    [] index = 3 -> "sat. mode"
    [] index = 4 -> "drive"
    [] index = 5 -> "quantum"
    [] index = 6 -> "wow"
    [] index = 7 -> "flutter"
    [] index = 8 -> "erase"
    [] index = 9 -> "hiss"
    [] index = 10 -> "dry / wet"
    [] index = 11 -> "post-gain"
    [] OTHER -> ""

\* |v| in hundredths, the exact value num / 2^s rounded to nearest, ties to
\* even (|v| < 2^17, which covers every control value and every dB figure)
RoundHalfEven(q, r2, half) ==
  IF r2 > half \/ (r2 = half /\ q % 2 = 1) THEN q + 1 ELSE q

HundredthsOf(num, s) ==
  IF s >= 31 THEN 0
  ELSE RoundHalfEven(num \div (2^s), (num % (2^s)) * 2, 2^s)

Hundredths(v) == HundredthsOf(Sig(v) * 100, 150 - Exp(v))

Fixed2Digits(neg, h) ==
  (IF neg THEN "-" ELSE "") \o ToString(h \div 100) \o "."
  \o (IF h % 100 < 10 THEN "0" ELSE "") \o ToString(h % 100)

\* format!("{:.2}", v)
Fixed2(v) ==
  IF IsNaN(v) THEN "NaN"
  ELSE IF IsInf(v) THEN (IF v < 0 THEN "-inf" ELSE "inf")
  ELSE Fixed2Digits(v < 0, Hundredths(v))

\* f32::log10
FLog10(v) == FDiv(FLn(v), F_LN_10)

\* the inner match of line 442
mode_text(m) ==
  CASE m = 0 -> "soft"
    [] m = 1 -> "tungsten"
    [] m = 2 -> "steel"
    [] m = 3 -> "iron"
    [] m = 4 -> "nickel"
    [] m = 5 -> "magnetite"
    [] OTHER -> ""

get_parameter_text(p, index) ==
  CASE index = 0 ->
         Fixed2(FMul(FLog10(FPowf(FMul(p.pre_gain, F_2), F_2)), F_20)) \o " dB"
    [] index = 1 -> Fixed2(p.bias)
    [] index = 2 -> Fixed2(p.hysteresis)
    [] index = 3 -> mode_text(AsU8(FAdd(FMul(p.mode, F_5), F_0_5)))
    [] index = 4 -> Fixed2(p.drive)
    [] index = 5 -> Fixed2(p.quantum)
    [] index = 6 -> Fixed2(p.wow)
    [] index = 7 -> Fixed2(p.flutter)
    [] index = 8 -> Fixed2(p.erase)
    [] index = 9 -> Fixed2(p.hiss)
    [] index = 10 -> Fixed2(p.dry_wet)
    [] index = 11 ->
         Fixed2(FMul(FLog10(FMul(FPowf(p.post_gain, F_2), F_2)), F_20)) \o " dB"
    [] OTHER -> ""

\* ------------------------------------------------------------------------
\* lib.rs: Effect
\* ------------------------------------------------------------------------

\* the seed of Xoshiro256Plus::seed_from_u64
SEED == 33186003
\* lengths of the delay lines built by Effect::default()
DLY_LEN == 4410
DRY_LEN == 2205
\* Info.initial_delay
INITIAL_DELAY == 2205

Zeros(len) == [i \in 1..len |-> F_0]

\* the generator: its seed and the number of values drawn from it so far
\* (its output is a function of the two)
seed_from_u64(seed) == [seed |-> seed, pos |-> 0]

\* a generator seeded per instance, as it would be from a seed that varies
instance_rng(instance) == seed_from_u64(SEED + instance)

\* the generator of the instance-th Effect built: line 95 seeds every one alike
default_rng(instance) == seed_from_u64(SEED)

\* impl Default for Effect, for the instance-th Effect built (its parameter
\* object is held beside it)
DefaultEffect(instance) ==
  [rng |-> default_rng(instance), sr |-> F_44100, rate |-> FDiv(F_1, F_44100),
   xl_q_z1 |-> F_0, xr_q_z1 |-> F_0, xl_h_z1 |-> F_0, xr_h_z1 |-> F_0,
   xl_e_z1 |-> F_0, xr_e_z1 |-> F_0, yl_z1 |-> F_0, yr_z1 |-> F_0,
   ramp_1 |-> F_0, ramp_2 |-> F_0, ramp_mod |-> F_0,
   lp_1_z1 |-> F_0, lp_1_z2 |-> F_0, flut_z1 |-> F_0, hp_1_z1 |-> F_0,
   hp_2_z1 |-> F_0, rec_nse_l_z1 |-> F_0, rec_nse_r_z1 |-> F_0,
   play_nse_l_z1 |-> F_0, play_nse_r_z1 |-> F_0,
   dly_line_l |-> Zeros(DLY_LEN), dly_line_r |-> Zeros(DLY_LEN),
   dry_line_l |-> Zeros(DRY_LEN), dry_line_r |-> Zeros(DRY_LEN)]

set_sample_rate(e, rate) == [e EXCEPT !.sr = rate, !.rate = FDiv(F_1, rate)]

\* the curves of compute.rs that process calls and compute.rs does not hold:
\* odd, increasing, zero at zero, inside -1..1
soft_sat_1(x) == FTanh(x)
mag_sat(c, x) == IF IsNaN(x) THEN FNaN
                 ELSE IF IsInf(x) THEN signum(x)
                 ELSE FDiv(x, FAdd(IntToF(c), FAbs(x)))
mag_sat_1(x) == mag_sat(1, x)
mag_sat_2(x) == mag_sat(2, x)
mag_sat_3(x) == mag_sat(3, x)
mag_sat_4(x) == mag_sat(4, x)
mag_sat_5(x) == mag_sat(5, x)

\* the parameter loads of lines 188-200; p is the store as lines 188-199
\* load it, p_200 the store as line 200 loads dry_wet again
load_parameters(p, p_200) ==
  [quantum |-> p.quantum,
   erase |-> FPowf(FSub(F_1, FMul(p.erase, F_0_999)), F_2),
   hyst |-> FPowf(p.hysteresis, F_3),
   bias |-> FSub(FMul(p.bias, F_2), F_1),
   drive |-> FMul(FExp(FMul(F_5, FPowf(p.drive, F_2))), F_0_5),
   pre_gain |-> FPowf(FMul(p.pre_gain, F_2), F_2),
   post_gain |-> FMul(FPowf(p.post_gain, F_2), F_2),
   wow |-> FPowf(p.wow, F_2),
   flut_amt |-> FPowf(p.flutter, F_2),
   hiss |-> FPowf(p.hiss, F_3),
   mode |-> AsU8(FAdd(FMul(p.mode, F_5), F_0_5)),
   dry |-> FSub(F_1, p.dry_wet),
   wet |-> p_200.dry_wet]

\* the names of the places of process that draw from rng
SITES == <<"rec_nse_l", "rec_nse_r", "x_quant_l", "x_quant_r", "grain",
           "flutter", "play_nse_l", "play_nse_r">>

\* self.rng.next_u64() as f32 at a site: the next value of the stream d
next_u64(w, d) == d[Len(w.log) + 1]
\* the generator and the record of draws after a draw at a site
drawn(w, site) == [w EXCEPT !.e.rng.pos = @ + 1, !.log = Append(@, site)]

\* the noise of lines 211-217 and 358-364: the variate less half the last
blue_noise(u, nse_z1) == FSub(unit(u), FMul(nse_z1, F_0_5))
\* lines 218-219, 271-272 and 365-366
add_noise(x, nse, hiss, gain) == FAdd(x, FMul(FMul(nse, hiss), gain))

\* the locals of one iteration of the loop of process, before line 188
begin_sample(e) ==
  [e |-> e, xl |-> F_0, xr |-> F_0, log |-> <<>>, sine_1 |-> F_0, sine_2 |-> F_0,
   flutter |-> F_0, read_idx_i |-> 0, read_idx_r |-> F_0,
   dry_in |-> <<F_0, F_0>>, wet_in |-> <<F_0, F_0>>,
   tap |-> <<F_0, F_0>>, dry_tap |-> <<F_0, F_0>>, dry |-> F_0, wet |-> F_0,
   left_out |-> F_0, right_out |-> F_0, panic |-> FALSE]

\* lines 207-208
store_dry(w, xl, xr) ==
  [w EXCEPT !.xl = xl, !.xr = xr, !.dry_in = <<xl, xr>>,
            !.e.dry_line_l = Append(@, xl), !.e.dry_line_r = Append(@, xr)]

\* lines 203-208
pre_gain_stage(w, k, left_in, right_in) ==
  IF w.panic THEN w
  ELSE store_dry(w, FAdd(FMul(left_in, k.pre_gain), k.bias),
              FAdd(FMul(right_in, k.pre_gain), k.bias))

\* lines 216-219
rec_noise_add(w, k, rec_nse_l, rec_nse_r) ==
  [w EXCEPT !.e.rec_nse_l_z1 = rec_nse_l, !.e.rec_nse_r_z1 = rec_nse_r,
            !.xl = add_noise(@, rec_nse_l, k.hiss, F_0_01),
            !.xr = add_noise(@, rec_nse_r, k.hiss, F_0_01)]

\* lines 211-219
rec_noise_stage(w, k, d) ==
  IF w.panic THEN w
  ELSE rec_noise_add(drawn(drawn(w, SITES[1]), SITES[2]), k,
                  blue_noise(next_u64(w, d), w.e.rec_nse_l_z1),
                  blue_noise(next_u64(drawn(w, SITES[1]), d), w.e.rec_nse_r_z1))

\* lines 224-225 as they would be with one register for both channels
hysteresis_store_shared(w, xl, xr) ==
  [w EXCEPT !.xl = xl, !.xr = xl, !.e.xl_h_z1 = xl, !.e.xr_h_z1 = xl]

\* lines 224-225
hysteresis_store(w, xl, xr) ==
  [w EXCEPT !.xl = xl, !.xr = xr, !.e.xl_h_z1 = xl, !.e.xr_h_z1 = xr]

\* lines 222-223
hysteresis(x, x_h_z1, hyst) ==
  FAdd(x_h_z1, analog_xover(FSub(x, x_h_z1), F_0_99975, hyst))

\* lines 222-225
hysteresis_stage(w, k) ==
  IF w.panic THEN w
  ELSE hysteresis_store(w, hysteresis(w.xl, w.e.xl_h_z1, k.hyst),
                     hysteresis(w.xr, w.e.xr_h_z1, k.hyst))

\* lines 230-231
quantization_store(w, xl, xr) ==
  [w EXCEPT !.xl = xl, !.xr = xr, !.e.xl_q_z1 = xl, !.e.xr_q_z1 = xr]

\* lines 228-231
quantization_stage(w, k, d) ==
  IF w.panic THEN w
  ELSE quantization_store(
      drawn(drawn(w, SITES[3]), SITES[4]),
      x_quant(w.xl, w.e.xl_q_z1, w.e.rate, k.quantum, next_u64(w, d)),
      x_quant(w.xr, w.e.xr_q_z1, w.e.rate, k.quantum,
              next_u64(drawn(w, SITES[3]), d)))

\* the curve that a mode's first call (first = TRUE) and other calls use
sat_curve(mode, first, x) ==
  CASE mode = 0 -> soft_sat_1(x)
    [] mode = 1 -> mag_sat_1(x)
    [] mode = 2 -> mag_sat_2(x)
    [] mode = 3 -> mag_sat_3(x)
    [] mode = 4 -> mag_sat_4(x)
    [] mode = 5 -> IF first THEN mag_sat_4(x) ELSE mag_sat_5(x)

\* one arm of the match of lines 234-260
saturation(mode, x, bias, drive) ==
  IF mode > 5 THEN x
  ELSE FSub(FDiv(sat_curve(mode, TRUE, FMul(x, drive)), sat_curve(mode, FALSE, drive)),
            FDiv(sat_curve(mode, FALSE, FMul(bias, drive)),
                 sat_curve(mode, FALSE, drive)))

saturation_stage(w, k) ==
  IF w.panic THEN w
  ELSE [w EXCEPT !.xl = saturation(k.mode, @, k.bias, k.drive),
              !.xr = saturation(k.mode, @, k.bias, k.drive)]

\* lines 271-272
grain_add(w, k, grain) ==
  [w EXCEPT !.xl = add_noise(@, grain, k.hiss, F_0_33),
            !.xr = add_noise(@, grain, k.hiss, F_0_33)]

\* lines 270-272
grain_stage(w, k, d) ==
  IF w.panic THEN w
  ELSE grain_add(drawn(w, SITES[5]), k, FPowf(unit(next_u64(w, d)), F_18))

\* the phasor update of lines 280-284, 290-294 and 300-304
phasor(ramp, rate, sr) ==
  IF FGt(ramp, TAU) THEN F_0 ELSE FAdd(ramp, FMul(TAU, FDiv(rate, sr)))

\* lines 285, 295 and 305
sine_mod(ramp_mod) == FAdd(FMul(FSin(ramp_mod), F_0_5), F_0_5)
sine_osc(ramp) == FMul(FSin(ramp), F_0_1)
\* lines 289 and 299
rate_1(s) == FMul(F_0_9, s)
rate_2(s) == FAdd(FMul(F_1, FSub(F_1, s)), F_0_35)

oscillator_store(w, ramp_mod, ramp_1, ramp_2) ==
  [w EXCEPT !.e.ramp_mod = ramp_mod, !.e.ramp_1 = ramp_1, !.e.ramp_2 = ramp_2,
            !.sine_1 = sine_osc(ramp_1), !.sine_2 = sine_osc(ramp_2)]

oscillator_rates(w, ramp_mod, s) ==
  oscillator_store(w, ramp_mod, phasor(w.e.ramp_1, rate_1(s), w.e.sr),
                   phasor(w.e.ramp_2, rate_2(s), w.e.sr))

oscillator_mod(w, ramp_mod) == oscillator_rates(w, ramp_mod, sine_mod(ramp_mod))

\* lines 280-305
oscillator_stage(w, k) ==
  IF w.panic THEN w
  ELSE oscillator_mod(w, phasor(w.e.ramp_mod, MOD_RATE, w.e.sr))

\* the filter coefficient of lines 311-313
omega(cut, sr) == FExp(FMul(FNeg(TAU), FDiv(cut, sr)))

\* line 316
flutter_lp(omega_1, flutter, lp_1_z1, lp_1_z2) ==
  FSub(FAdd(FMul(FPowf(FSub(F_1, omega_1), F_2), flutter),
            FMul(FMul(F_2, omega_1), lp_1_z1)),
       FMul(FPowf(omega_1, F_2), lp_1_z2))

\* lines 318 and 320
flutter_hp(om, in, in_z1, hp_z1) ==
  FAdd(FSub(FMul(FDiv(FAdd(F_1, om), F_2), in),
            FMul(FDiv(FAdd(F_1, om), F_2), in_z1)),
       FMul(om, hp_z1))

\* lines 326-327
flutter_cube(flutter) == FMul(FMul(flutter, flutter), flutter)
flutter_sum(flutter_hp_1, flutter_hp_2) ==
  flutter_cube(FAdd(FMul(flutter_hp_1, F_16), FMul(flutter_hp_2, F_0)))

\* lines 321-327
flutter_store(w, flutter, lp, flutter_hp_1, flutter_hp_2) ==
  [w EXCEPT !.e.lp_1_z2 = w.e.lp_1_z1, !.e.lp_1_z1 = lp,
            !.e.flut_z1 = flutter, !.e.hp_1_z1 = flutter_hp_1,
            !.e.hp_2_z1 = flutter_hp_2,
            !.flutter = flutter_sum(flutter_hp_1, flutter_hp_2)]

\* lines 318-327
flutter_filter(w, flutter, lp) ==
  flutter_store(w, flutter, lp,
                flutter_hp(omega(HP_1_CUT, w.e.sr), lp, w.e.lp_1_z1, w.e.hp_1_z1),
                flutter_hp(omega(HP_2_CUT, w.e.sr), flutter, w.e.flut_z1, w.e.hp_2_z1))

\* lines 314-327
flutter_draw(w, flutter) ==
  flutter_filter(w, flutter,
                 flutter_lp(omega(LP_1_CUT, w.e.sr), flutter, w.e.lp_1_z1, w.e.lp_1_z2))

\* lines 311-327
flutter_stage(w, k, d) ==
  IF w.panic THEN w
  ELSE flutter_draw(drawn(w, SITES[6]), unit(next_u64(w, d)))

\* line 330
my_mod(sine_1, sine_2, wow, flutter, flut_amt) ==
  FAdd(FAdd(F_1, FMul(FAdd(sine_1, sine_2), wow)), FMul(flutter, flut_amt))

\* lines 340 and 341
read_idx(m) == FMul(F_2205, m)
read_idx_i(idx) == AsUsize(FFloor(idx))

\* VecDeque::get: Some(element) or None, as a sequence of one or none
get(line, i) == IF i < Len(line) THEN <<line[i + 1]>> ELSE <<>>

\* lines 348-349
interpolate(x_1, x_2, r) == FAdd(FMul(x_1, FSub(F_1, r)), FMul(x_2, r))

delay_out(w, xl, xr) == [w EXCEPT !.xl = xl, !.xr = xr, !.tap = <<xl, xr>>]

\* lines 343-349; a failing unwrap leaves the locals as they are and sets panic
delay_taps(w, r, xl_1, xr_1, xl_2, xr_2) ==
  IF xl_1 = <<>> \/ xr_1 = <<>> \/ xl_2 = <<>> \/ xr_2 = <<>>
  THEN [w EXCEPT !.panic = TRUE]
  ELSE delay_out(w, interpolate(xl_1[1], xl_2[1], r), interpolate(xr_1[1], xr_2[1], r))

\* lines 342-349
delay_index(w, idx, i) ==
  delay_taps([w EXCEPT !.read_idx_i = i, !.read_idx_r = FSub(idx, IntToF(i))],
             FSub(idx, IntToF(i)),
             get(w.e.dly_line_l, i), get(w.e.dly_line_r, i),
             get(w.e.dly_line_l, i + 1), get(w.e.dly_line_r, i + 1))

\* lines 340-349
delay_read(w, idx) == delay_index(w, idx, read_idx_i(idx))

\* lines 333-334 alone: the lines as they would be without their pop_front
delay_push_back(w) ==
  [w EXCEPT !.e.dly_line_l = Append(@, w.xl),
            !.e.dly_line_r = Append(@, w.xr),
            !.wet_in = <<w.xl, w.xr>>]

\* lines 333-336
delay_push(w) ==
  [w EXCEPT !.e.dly_line_l = Tail(Append(@, w.xl)),
            !.e.dly_line_r = Tail(Append(@, w.xr)),
            !.wet_in = <<w.xl, w.xr>>]

\* lines 330-349
delay_stage(w, k) ==
  IF w.panic THEN w
  ELSE delay_read(delay_push(w),
               read_idx(my_mod(w.sine_1, w.sine_2, k.wow, w.flutter, k.flut_amt)))

\* lines 352-353
self_erasure(x, x_e_z1, erase) ==
  FAdd(x_e_z1, FMul(FTanh(FDiv(FSub(x, x_e_z1), erase)), erase))

\* lines 354-355
erasure_store(w, xl, xr) ==
  [w EXCEPT !.xl = xl, !.xr = xr, !.e.xl_e_z1 = xl, !.e.xr_e_z1 = xr]

\* lines 352-355
erasure_stage(w, k) ==
  IF w.panic THEN w
  ELSE erasure_store(w, self_erasure(w.xl, w.e.xl_e_z1, k.erase),
                     self_erasure(w.xr, w.e.xr_e_z1, k.erase))

\* lines 363-366
play_noise_add(w, k, play_nse_l, play_nse_r) ==
  [w EXCEPT !.e.play_nse_l_z1 = play_nse_l, !.e.play_nse_r_z1 = play_nse_r,
            !.xl = add_noise(@, play_nse_l, k.hiss, F_0_03),
            !.xr = add_noise(@, play_nse_r, k.hiss, F_0_03)]

\* lines 358-366
play_noise_stage(w, k, d) ==
  IF w.panic THEN w
  ELSE play_noise_add(drawn(drawn(w, SITES[7]), SITES[8]), k,
                      blue_noise(next_u64(w, d), w.e.play_nse_l_z1),
                      blue_noise(next_u64(drawn(w, SITES[7]), d), w.e.play_nse_r_z1))

\* lines 370-371: y[n] = x[n] - 0.25*y[n-1]
dc_decouple(x, y_z1) == FSub(x, FMul(y_z1, F_0_25))

\* lines 372-373
dc_decouple_store(w, xl, xr) ==
  [w EXCEPT !.xl = xl, !.xr = xr, !.e.yl_z1 = xl, !.e.yr_z1 = xr]

\* lines 370-373
dc_decouple_stage(w, k) ==
  IF w.panic THEN w
  ELSE dc_decouple_store(w, dc_decouple(w.xl, w.e.yl_z1), dc_decouple(w.xr, w.e.yr_z1))

\* lines 376-377
dry_wet_mix(x, dry_x, wet, dry) == FAdd(FMul(x, wet), FMul(dry_x, dry))

\* lines 380-381
output_store(w, k, xl, xr) ==
  [w EXCEPT !.xl = xl, !.xr = xr, !.dry = k.dry, !.wet = k.wet,
            !.left_out = FMul(xl, k.post_gain), !.right_out = FMul(xr, k.post_gain)]

\* lines 376-377, the two pop_front
dry_pop(w) ==
  [w EXCEPT !.e.dry_line_l = Tail(@), !.e.dry_line_r = Tail(@),
            !.dry_tap = <<Head(w.e.dry_line_l), Head(w.e.dry_line_r)>>]

\* lines 376-381
output_stage(w, k) ==
  IF w.panic THEN w
  ELSE output_store(dry_pop(w), k,
                    dry_wet_mix(w.xl, Head(w.e.dry_line_l), k.wet, k.dry),
                    dry_wet_mix(w.xr, Head(w.e.dry_line_r), k.wet, k.dry))

\* w, with v computed before it: the program computes v at this point
After(v, w) == IF v = v THEN w ELSE w

\* the loop body as it would be with the quantization ahead of the
\* recording noise
process_stages_quant_first(e, k, left_in, right_in, d) ==
  After(k, output_stage(dc_decouple_stage(play_noise_stage(erasure_stage(delay_stage(
    flutter_stage(oscillator_stage(grain_stage(saturation_stage(
      hysteresis_stage(rec_noise_stage(quantization_stage(
        pre_gain_stage(begin_sample(e), k, left_in, right_in),
      k, d), k, d), k), k), k, d), k), k, d), k), k), k, d), k), k))

\* lines 203-381 with the parameters k loaded
process_stages(e, k, left_in, right_in, d) ==
  After(k, output_stage(dc_decouple_stage(play_noise_stage(erasure_stage(delay_stage(
    flutter_stage(oscillator_stage(grain_stage(saturation_stage(
      quantization_stage(hysteresis_stage(rec_noise_stage(
        pre_gain_stage(begin_sample(e), k, left_in, right_in),
      k, d), k), k, d), k), k, d), k), k, d), k), k), k, d), k), k))

\* one iteration of the loop of process (lines 187-385) on the instance
\* state e: the locals and the instance state at its end, or at the failing
\* unwrap. d is the stream of values the generator yields during it.
process_sample(e, p, p_200, left_in, right_in, d) ==
  process_stages(e, load_parameters(p, p_200), left_in, right_in, d)

\* the loop of process (line 187) over the sample pairs ins of a buffer. r.w
\* holds the instance state and the locals of the last iteration, r.wet and
\* r.dry what the iterations pushed into dly_line_l and dry_line_l, r.n
\* their number; a panic ends the loop.
sampled(r, w) ==
  [w |-> w, wet |-> Append(r.wet, w.wet_in[1]), dry |-> Append(r.dry, w.dry_in[1]),
   n |-> r.n + 1]

RECURSIVE process_block(_, _, _, _)
process_block(r, p, ins, d) ==
  IF ins = <<>> \/ r.w.panic THEN r
  ELSE process_block(
         sampled(r, process_sample(r.w.e, p, p, Head(ins)[1], Head(ins)[2], d)),
         p, Tail(ins), d)

\* ------------------------------------------------------------------------
\* the state machine
\* ------------------------------------------------------------------------

VARIABLES
  eff,      \* the Effect instance
  params,   \* its EffectParameters
  out,      \* the output sample pair last written
  obs,      \* the locals of the last iteration of process
  status,   \* "ok", or "panicked" once an unwrap failed
  n,        \* the number of samples process was entered for
  hist,     \* every sample pushed into dly_line_l and dry_line_l so far
  call,     \* the last call on the parameter object, and its result
  twin,     \* a second Effect, with its parameters, output and status
  fx        \* a function of compute.rs or a stage alone: arguments and result

vars == <<eff, params, out, obs, status, n, hist, call, twin, fx>>

\* bounds of the exploration
MaxSets == 1
MaxSamples == 2

\* values of the environment
F_0_75 == FSub(F_1, F_0_25)
U_2_63 == 190 * P23
ParamIndex == -1..12
ParamVals == {F_0_25, F_1}
SampleRates == {IntToF(48000)}
AudioInA == <<F_0_5, -F_0_25>>
AudioInB == <<-F_0_25, F_1>>
AudioIn == {AudioInA, AudioInB}
DrawsHalf == [i \in 1..8 |-> U_2_63]
DrawsMixed == <<F_0, U64_MAX, U_2_63, U64_MAX, U_2_63, F_0, U64_MAX, U_2_63>>
DrawStreams == {DrawsHalf, DrawsMixed}

NoCall ==
  [op |-> "none", index |-> 0, val |-> F_0, ret_f32 |-> F_0, ret_string |-> "",
   before |-> DefaultParameters, sets |-> 0, last_set |-> <<>>]
NoObs == begin_sample(DefaultEffect(1))
NoFx == [f |-> "none", arg |-> <<>>, ret |-> F_0, k |-> 0]
Twin0 == [eff |-> DefaultEffect(2), params |-> DefaultParameters,
          out |-> <<F_0, F_0>>, status |-> "ok"]

\* no second instance
NoTwin == [eff |-> <<>>, params |-> DefaultParameters, out |-> <<F_0, F_0>>,
           status |-> "none"]

\* the state after construction, a second instance being t
Built(t) ==
  /\ eff = DefaultEffect(1)
  /\ params = DefaultParameters
  /\ out = <<F_0, F_0>>
  /\ obs = [NoObs EXCEPT !.e = <<>>]
  /\ status = "ok"
  /\ n = 0
  /\ hist = [wet |-> <<>>, dry |-> <<>>]
  /\ call = NoCall
  /\ twin = t
  /\ fx = NoFx

\* one instance built
Init == Built(NoTwin)
\* two instances built
InitTwin == Built(Twin0)

\* PluginParameters::set_parameter(index, val)
SetParameter(index, val) ==
  /\ status = "ok"
  /\ call.sets < MaxSets
  /\ params' = set_parameter(params, index, val)
  /\ call' = [op |-> "set_parameter", index |-> index, val |-> val,
              ret_f32 |-> F_0, ret_string |-> "", before |-> params,
              sets |-> call.sets + 1, last_set |-> <<index, val>>]
  /\ UNCHANGED <<eff, out, obs, status, n, hist, twin, fx>>

\* PluginParameters::get_parameter(index)
GetParameter(index) ==
  /\ status = "ok"
  /\ call' = [call EXCEPT !.op = "get_parameter", !.index = index, !.val = F_0,
                          !.ret_f32 = get_parameter(params, index),
                          !.ret_string = "", !.before = params]
  /\ UNCHANGED <<eff, params, out, obs, status, n, hist, twin, fx>>

\* PluginParameters::get_parameter_name(index)
GetParameterName(index) ==
  /\ status = "ok"
  /\ call' = [call EXCEPT !.op = "get_parameter_name", !.index = index,
                          !.val = F_0, !.ret_f32 = F_0,
                          !.ret_string = get_parameter_name(index),
                          !.before = params]
  /\ UNCHANGED <<eff, params, out, obs, status, n, hist, twin, fx>>

\* PluginParameters::get_parameter_text(index)
GetParameterText(index) ==
  /\ status = "ok"
  /\ call' = [call EXCEPT !.op = "get_parameter_text", !.index = index,
                          !.val = F_0, !.ret_f32 = F_0,
                          !.ret_string = get_parameter_text(params, index),
                          !.before = params]
  /\ UNCHANGED <<eff, params, out, obs, status, n, hist, twin, fx>>

\* Plugin::set_sample_rate(rate)
SetSampleRate(rate) ==
  /\ status = "ok"
  /\ call.sets < MaxSets
  /\ eff' = set_sample_rate(eff, rate)
  /\ call' = [call EXCEPT !.op = "set_sample_rate", !.val = rate,
                          !.before = params, !.sets = @ + 1]
  /\ UNCHANGED <<params, out, obs, status, n, hist, twin, fx>>

\* what one iteration of the loop of process leaves in the variables
Processed(w) ==
  /\ eff' = w.e
  /\ obs' = [w EXCEPT !.e = <<>>]
  /\ status' = IF w.panic THEN "panicked" ELSE "ok"
  /\ out' = IF w.panic THEN out ELSE <<w.left_out, w.right_out>>
  /\ n' = n + 1
  /\ hist' = [wet |-> Append(hist.wet, w.wet_in[1]),
              dry |-> Append(hist.dry, w.dry_in[1])]

\* what a call of process on a buffer leaves in the variables
Blocked(r) ==
  /\ eff' = r.w.e
  /\ obs' = [r.w EXCEPT !.e = <<>>]
  /\ status' = IF r.w.panic THEN "panicked" ELSE "ok"
  /\ out' = IF r.w.panic THEN out ELSE <<r.w.left_out, r.w.right_out>>
  /\ n' = r.n
  /\ hist' = [wet |-> r.wet, dry |-> r.dry]

\* Plugin::process on a buffer of the sample pairs ins
ProcessBlock(ins, d) ==
  /\ status = "ok"
  /\ Blocked(process_block([w |-> begin_sample(eff), wet |-> hist.wet,
                            dry |-> hist.dry, n |-> n], params, ins, d))
  /\ UNCHANGED <<params, call, twin, fx>>

\* the parameter object after the control context called set_parameter
\* during a sample, or untouched
Touched(p) ==
  IF p = params THEN call
  ELSE [op |-> "set_parameter", index |-> 10, val |-> p.dry_wet,
        ret_f32 |-> F_0, ret_string |-> "", before |-> params,
        sets |-> call.sets + 1, last_set |-> <<10, p.dry_wet>>]

\* Plugin::process, one sample pair of the buffer. p_200 is the parameter
\* object as the load of line 200 finds it: params, or params after a
\* set_parameter(10, val) that the control context made after the load of
\* line 199.
ProcessSample(in, d, p_200) ==
  /\ status = "ok"
  /\ Processed(process_sample(eff, params, p_200, in[1], in[2], d))
  /\ params' = p_200
  /\ call' = Touched(p_200)
  /\ UNCHANGED <<twin, fx>>

\* the samples the host passes and the values the generator yields
Feed == {<<AudioInA, DrawsHalf>>, <<AudioInB, DrawsMixed>>}
\* the controls the host moves while audio runs
Moved == {3, 5, 6, 7, 9, 10}
\* the parameter object at line 200
Racing == IF call.sets < MaxSets
          THEN {params} \cup {set_parameter(params, 10, val) : val \in ParamVals}
          ELSE {params}

Process ==
  \E f \in Feed, p_200 \in Racing : n < MaxSamples /\ ProcessSample(f[1], f[2], p_200)

Next ==
  \/ \E index \in Moved, val \in ParamVals : SetParameter(index, val)
  \/ \E rate \in SampleRates : SetSampleRate(rate)
  \/ Process

\* the plugin in a host: controls, sample rate and audio in any order
Spec == Init /\ [][Next]_vars

NextStore ==
  \/ \E index \in ParamIndex, val \in ParamVals : SetParameter(index, val)
  \/ \E index \in ParamIndex : GetParameter(index)
  \/ \E index \in ParamIndex : GetParameterName(index)
  \/ \E index \in ParamIndex : GetParameterText(index)

\* the parameter object, called in any order
SpecStore == Init /\ [][NextStore]_vars

\* ------------------------------------------------------------------------
\* the parameter store
\* ------------------------------------------------------------------------

InRange(index) == index \in 0..11

\* p is q with parameter index holding val and every other parameter as in q
StoredOnly(p, q, index, val) ==
  \A j \in 0..11 :
    get_parameter(p, j) = IF j = index THEN val ELSE get_parameter(q, j)

\* C6: set_parameter(i, v) with i in 0..11 stores v in parameter i only and
\* a following get_parameter(i) returns v; with i outside 0..11
\* set_parameter changes nothing, get_parameter returns 0.0 and
\* get_parameter_name and get_parameter_text return ""; the three getters
\* change no parameter.
C6_ParameterStore ==
  /\ call.op = "set_parameter" /\ InRange(call.index)
       => StoredOnly(params, call.before, call.index, call.val)
  /\ call.op = "set_parameter" /\ ~InRange(call.index) => params = call.before
  /\ call.op = "get_parameter" /\ call.last_set # <<>>
       /\ call.last_set[1] = call.index /\ InRange(call.index)
       => call.ret_f32 = call.last_set[2]
  /\ call.op = "get_parameter" /\ ~InRange(call.index) => call.ret_f32 = F_0
  /\ call.op \in {"get_parameter_name", "get_parameter_text"}
       /\ ~InRange(call.index) => call.ret_string = ""
  /\ call.op \in {"get_parameter", "get_parameter_name", "get_parameter_text"}
       => params = call.before

\* get_parameter(3) has returned the 0.25 that set_parameter(3, 0.25) stored
C6_Witness ==
  /\ call.op = "get_parameter"
  /\ call.index = 3
  /\ call.last_set = <<3, F_0_25>>
  /\ call.ret_f32 = F_0_25
  /\ params = [DefaultParameters EXCEPT !.mode = F_0_25]

\* ------------------------------------------------------------------------
\* one sample of process
\* ------------------------------------------------------------------------

\* a sample went through the whole loop body
SampleDone == n >= 1 /\ status = "ok"

\* the place of a site among the draws of the last sample (0: no draw)
DrawAt(site) ==
  IF \E i \in 1..Len(obs.log) : obs.log[i] = site
  THEN CHOOSE i \in 1..Len(obs.log) : obs.log[i] = site
  ELSE 0

\* C3, as claimed: within a sample the quantization draws (left, then
\* right) come before the recording-noise draws, these before the flutter
\* draw, and it before the playback-noise draws.
C3_QuantizationDrawsFirst ==
  SampleDone =>
    /\ DrawAt("x_quant_l") < DrawAt("x_quant_r")
    /\ DrawAt("x_quant_r") < DrawAt("rec_nse_l")
    /\ DrawAt("x_quant_r") < DrawAt("rec_nse_r")
    /\ DrawAt("rec_nse_l") < DrawAt("flutter")
    /\ DrawAt("rec_nse_r") < DrawAt("flutter")
    /\ DrawAt("flutter") < DrawAt("play_nse_l")
    /\ DrawAt("flutter") < DrawAt("play_nse_r")

\* C3, amended: within a sample the eight draws are, in this order,
\* recording noise left and right, quantization left and right, grain,
\* flutter, playback noise left and right.
C3_DrawOrder ==
  SampleDone =>
    obs.log = <<"rec_nse_l", "rec_nse_r", "x_quant_l", "x_quant_r", "grain",
                "flutter", "play_nse_l", "play_nse_r">>

\* a second sample has drawn its eight values, the generator being at 16
C3_Witness ==
  /\ SampleDone
  /\ n = 2
  /\ Len(obs.log) = 8
  /\ obs.log[1] = "rec_nse_l"
  /\ obs.log[3] = "x_quant_l"
  /\ eff.rng.pos = 16

\* the sample rate as a number of samples per second
SrInt == AsUsize(eff.sr)

\* C7: the delay path follows the sample rate: the wet line holds 0.1*sr
\* samples, the dry line 0.05*sr, and the base read tap (the read index at
\* mod = 1) is 0.05*sr.
C7_DelayFollowsSampleRate ==
  /\ 10 * Len(eff.dly_line_l) = SrInt
  /\ 10 * Len(eff.dly_line_r) = SrInt
  /\ 20 * Len(eff.dry_line_l) = SrInt
  /\ 20 * Len(eff.dry_line_r) = SrInt
  /\ SampleDone /\ params.wow = F_0 /\ params.flutter = F_0
       => 20 * obs.read_idx_i = SrInt

\* C11: after every processed sample the wet lines hold 4410 samples and
\* the dry lines 2205: the sample pushed one value on each line and popped
\* one from each, and the dry pop found a value.
C11_LineLengths ==
  SampleDone =>
    /\ Len(eff.dly_line_l) = DLY_LEN
    /\ Len(eff.dly_line_r) = DLY_LEN
    /\ Len(eff.dry_line_l) = DRY_LEN
    /\ Len(eff.dry_line_r) = DRY_LEN
    /\ eff.dly_line_l[DLY_LEN] = obs.wet_in[1]
    /\ eff.dly_line_r[DLY_LEN] = obs.wet_in[2]
    /\ eff.dry_line_l[DRY_LEN] = obs.dry_in[1]
    /\ eff.dry_line_r[DRY_LEN] = obs.dry_in[2]

\* two samples are through, and the lines end with what the second pushed
C11_Witness ==
  /\ SampleDone
  /\ n = 2
  /\ Len(eff.dly_line_l) = DLY_LEN
  /\ Len(eff.dry_line_r) = DRY_LEN
  /\ eff.dry_line_l[DRY_LEN] = obs.dry_in[1]
  /\ eff.dry_line_l[DRY_LEN - 1] # F_0
  /\ eff.dly_line_r[DLY_LEN - 1] # F_0

\* C13: the two weights of the cross-fade of a sample are 1 - w and w for
\* one value w of dry_wet, and sum to 1.
C13_WeightsSumToOne ==
  SampleDone =>
    /\ obs.dry = FSub(F_1, obs.wet)
    /\ FAdd(obs.dry, obs.wet) = F_1

\* ------------------------------------------------------------------------
\* two instances side by side
\* ------------------------------------------------------------------------

\* set_parameter(index, val) on the parameter objects of both instances
TwinSetParameter(index, val) ==
  /\ status = "ok"
  /\ call.sets < MaxSets
  /\ params' = set_parameter(params, index, val)
  /\ twin' = [twin EXCEPT !.params = set_parameter(@, index, val)]
  /\ call' = [op |-> "set_parameter", index |-> index, val |-> val,
              ret_f32 |-> F_0, ret_string |-> "", before |-> params,
              sets |-> call.sets + 1, last_set |-> <<index, val>>]
  /\ UNCHANGED <<eff, out, obs, status, n, hist, fx>>

\* the streams the generator of the second instance can yield while that of
\* the first yields d: the output of a generator is a function of its seed
\* and of the number of values drawn from it
TwinDraws(d) == IF twin.eff.rng = eff.rng THEN {d} ELSE DrawStreams

\* the second instance after its sample
TwinProcessed(w) ==
  [eff |-> w.e, params |-> twin.params,
   out |-> IF w.panic THEN twin.out ELSE <<w.left_out, w.right_out>>,
   status |-> IF w.panic THEN "panicked" ELSE "ok"]

\* one sample pair through process of each instance: in and d for the
\* first, in2 and d2 for the second
TwinSample(in, d, in2, d2) ==
  /\ status = "ok"
  /\ twin.status = "ok"
  /\ \E w \in {[i \in 1..2 |->
                 process_sample(IF i = 1 THEN eff ELSE twin.eff,
                                IF i = 1 THEN params ELSE twin.params,
                                IF i = 1 THEN params ELSE twin.params,
                                IF i = 1 THEN in[1] ELSE in2[1],
                                IF i = 1 THEN in[2] ELSE in2[2],
                                IF i = 1 THEN d ELSE d2)]} :
       Processed(w[1]) /\ twin' = TwinProcessed(w[2])
  /\ UNCHANGED <<params, call, fx>>

\* the same input to both instances
TwinProcess ==
  \E f \in Feed : \E d2 \in TwinDraws(f[2]) :
    n < MaxSamples /\ TwinSample(f[1], f[2], f[1], d2)

NextTwin ==
  \/ \E index \in Moved, val \in ParamVals : TwinSetParameter(index, val)
  \/ TwinProcess

\* two instances given the same parameter values and the same input
SpecTwin == InitTwin /\ [][NextTwin]_vars

LeftIn == {F_0, F_1}

\* the second instance gets another left input and the same right input
IsoProcess ==
  \E f \in Feed, left \in LeftIn : \E d2 \in TwinDraws(f[2]) :
    n < MaxSamples /\ TwinSample(f[1], f[2], <<left, f[1][2]>>, d2)

NextIso ==
  \/ \E index \in Moved, val \in ParamVals : TwinSetParameter(index, val)
  \/ IsoProcess

\* two instances that differ in their left input only
SpecIso == InitTwin /\ [][NextIso]_vars

\* the registers of the right channel
RightOf(e) ==
  <<e.xr_h_z1, e.xr_q_z1, e.xr_e_z1, e.yr_z1, e.rec_nse_r_z1, e.play_nse_r_z1,
    e.dly_line_r, e.dry_line_r>>
\* the state both channels share: the modulator and the generator
SharedOf(e) ==
  <<e.ramp_mod, e.ramp_1, e.ramp_2, e.lp_1_z1, e.lp_1_z2, e.flut_z1,
    e.hp_1_z1, e.hp_2_z1, e.rng>>

MaxIndexSamples == 300

\* the host turns flutter up to 1.0 ...
IndexSet == params.flutter = F_0 /\ SetParameter(7, F_1)

\* ... and passes audio, the generator yielding 2^63 at every draw
IndexProcess ==
  \E in \in {AudioInA}, d \in {DrawsHalf} :
    /\ params.flutter = F_1
    /\ n < MaxIndexSamples
    /\ ProcessSample(in, d, params)

NextIndex == IndexSet \/ IndexProcess

SpecIndex == Init /\ [][NextIndex]_vars

\* C1: in every sample the read index floor(2205*mod) is at most
\* capacity - 2 = 4408, so that no unwrap of lines 343-346 fails.
C1_ReadIndexInRange ==
  n >= 1 => status = "ok" /\ obs.read_idx_i <= DLY_LEN - 2

MaxRampSamples == 1500
LowRate == IntToF(1000)

\* the host announces a sample rate of 1000 Hz ...
RampSetRate == eff.sr = F_44100 /\ SetSampleRate(LowRate)

\* ... and passes audio
RampProcess ==
  \E in \in {AudioInA}, d \in {DrawsHalf} :
    /\ eff.sr = LowRate
    /\ n < MaxRampSamples
    /\ ProcessSample(in, d, params)

NextRamp == RampSetRate \/ RampProcess

SpecRamp == Init /\ [][NextRamp]_vars

\* C10: after every sample ramp_mod, ramp_1 and ramp_2 are in [0, 2*pi)
C10_RampsBelowTau ==
  SampleDone =>
    /\ FLe(F_0, eff.ramp_mod) /\ FLt(eff.ramp_mod, TAU)
    /\ FLe(F_0, eff.ramp_1) /\ FLt(eff.ramp_1, TAU)
    /\ FLe(F_0, eff.ramp_2) /\ FLt(eff.ramp_2, TAU)

BlockLen == 8
MaxDelayBlocks == 276

\* the input of the k-th sample: a sawtooth of 64 steps, on both channels
Saw(k) == FDiv(IntToF((k % 64) - 32), IntToF(64))
\* the buffer that follows k samples
SawBlock(k) == [i \in 1..BlockLen |-> <<Saw(k + i), Saw(k + i)>>]

\* the host passes a sawtooth in buffers of BlockLen sample pairs, the
\* controls at their defaults
DelayProcess ==
  \E ins \in {SawBlock(n)}, d \in {DrawsHalf} :
    /\ n < MaxDelayBlocks * BlockLen
    /\ ProcessBlock(ins, d)

SpecDelay == Init /\ [][DelayProcess]_vars

\* what the k-th sample pushed into dly_line_l and dry_line_l; the zero the
\* lines were built with for k < 1
WetPushed(k) == IF k >= 1 THEN hist.wet[k] ELSE F_0
DryPushed(k) == IF k >= 1 THEN hist.dry[k] ELSE F_0

\* C2: at mod = 1 the wet read of a sample is what was pushed into the wet
\* line initial_delay = 2205 samples earlier, as is the dry sample it is
\* blended with.
C2_WetAlignedWithDry ==
  SampleDone /\ params.wow = F_0 /\ params.flutter = F_0 =>
    /\ obs.tap[1] = WetPushed(n - INITIAL_DELAY)
    /\ obs.dry_tap[1] = DryPushed(n - INITIAL_DELAY)

\* ------------------------------------------------------------------------
\* functions of compute.rs and stages of process, called alone
\* ------------------------------------------------------------------------

\* quarters and sixteenths: k/den for k in lo..hi, exact in binary32
Fractions(lo, hi, den) == {FDiv(IntToF(k), IntToF(den)) : k \in lo..hi}
\* the float next above a positive float
NextUp(v) == v + 1

QuantIn == {F_0, F_0_25, NextUp(F_0_25), F_0_5, -F_0_5, F_1}
QuantAmount == {F_0, F_0_25, F_1}
QuantDraws == {F_0, U_2_63, U64_MAX}
QuantRates == {F_44100, IntToF(48000)}

\* compute::x_quant(x, x_p, T, q, rng), the generator yielding u
Quantize(x, x_p, sr, q, u) ==
  /\ fx.f = "none"
  /\ fx' = [f |-> "x_quant", arg |-> <<x, x_p, FDiv(F_1, sr), q, u>>,
            ret |-> x_quant(x, x_p, FDiv(F_1, sr), q, u), k |-> 0]
  /\ UNCHANGED <<eff, params, out, obs, status, n, hist, call, twin>>

NextQuant ==
  \E x \in QuantIn, x_p \in QuantIn, sr \in QuantRates, q \in QuantAmount,
     u \in QuantDraws : Quantize(x, x_p, sr, q, u)

SpecQuant == Init /\ [][NextQuant]_vars

\* C4: x_quant with q = 0 returns x, whatever x_p and the draw are
C4_QuantZeroIsIdentity ==
  fx.f = "x_quant" /\ fx.arg[4] = F_0 => fx.ret = fx.arg[1]

\* the inputs of the saturation curves: -10, -9.9375 .. 10 in sixteenths
SatRange == 10
SatIn == Fractions(-16 * SatRange, 16 * SatRange, 16)
CURVES == {"tape_sat_1", "tape_sat_2", "soft_clip", "tupe_sat"}

curve(f, x) ==
  CASE f = "tape_sat_1" -> tape_sat_1(x)
    [] f = "tape_sat_2" -> tape_sat_2(x)
    [] f = "soft_clip" -> soft_clip(x)
    [] f = "tupe_sat" -> tupe_sat(x)

\* one call of a saturation curve of compute.rs
Saturate(f, x) ==
  /\ fx.f = "none"
  /\ fx' = [f |-> f, arg |-> <<x>>, ret |-> curve(f, x), k |-> 0]
  /\ UNCHANGED <<eff, params, out, obs, status, n, hist, call, twin>>

NextSat == \E f \in CURVES, x \in SatIn : Saturate(f, x)

SpecSat == Init /\ [][NextSat]_vars

\* C8: every saturation curve f has f(0) = 0 and |f(x)| <= 1 for |x| <= 10
C8_CurvesBounded ==
  fx.f \in CURVES /\ FLe(FAbs(fx.arg[1]), F_10)
    => /\ FLe(FAbs(fx.ret), F_1)
       /\ fx.arg[1] = F_0 => fx.ret = F_0

\* the constant inputs of the dc-decouple stage
DcIn == Fractions(-8, 8, 4) \ {F_0}
MaxDc == 40
DcEps == F_0_1

\* the first sample of a constant input c through lines 370-373, the
\* register being zero
DcStart(c) ==
  /\ fx.f = "none"
  /\ fx' = [f |-> "dc_decouple", arg |-> <<c, F_0>>, ret |-> dc_decouple(c, F_0),
            k |-> 1]
  /\ UNCHANGED <<eff, params, out, obs, status, n, hist, call, twin>>

\* the next sample of the same input: the register holds the last output
\* (k counts the samples up to MaxDc)
DcStep ==
  /\ fx.f = "dc_decouple"
  /\ fx' = [fx EXCEPT !.arg = <<fx.arg[1], fx.ret>>,
                      !.ret = dc_decouple(fx.arg[1], fx.ret),
                      !.k = Min(@ + 1, MaxDc)]
  /\ UNCHANGED <<eff, params, out, obs, status, n, hist, call, twin>>

DcBegin == \E c \in DcIn : DcStart(c)

NextDc == DcBegin \/ DcStep

SpecDc == Init /\ [][NextDc]_vars

\* DcStep cannot change the state: no input yet, or the output has settled
\* (the register already held it) and the count is full
DcIdle == fx.f = "dc_decouple" => fx.ret = fx.arg[2] /\ fx.k = MaxDc

\* the input starts, and process is called for as long as it lasts: weak
\* fairness of both actions, ENABLED <<DcStep>>_vars being ~DcIdle
SpecDcFair ==
  SpecDc /\ WF_vars(DcBegin) /\ ([]<>DcIdle \/ []<><<DcStep>>_vars)

\* C9: with a constant non-zero input the output of the dc-decouple stage
\* is, from some sample on, below eps in magnitude forever
C9_DcDecays == <>[](FLt(FAbs(fx.ret), DcEps))

=============================================================================
